---- MODULE Spec2Model ----
(***************************************************************************)
(* Model of the sample plugins of this repository:                         *)
(*   - SimpleTestPlugin     (src/main.go, lines 1-134)                     *)
(*   - TestClusterPlugin    (src/main.go, lines 135-393)                   *)
(*   - sample-plugin        (the Go file embedded in src/Makefile, 12-61)  *)
(* One plugin variant is loaded per behaviour.  Host threads call the      *)
(* lifecycle methods and the HTTP handlers of the loaded instance          *)
(* concurrently.  Methods that take the RWMutex or touch the initialized   *)
(* flag under it are modelled statement by statement; methods that take no *)
(* lock are one step.                                                      *)
(***************************************************************************)
EXTENDS Integers, Sequences, FiniteSets, TLC

\* ------------------------------------------------------------------ bounds
NumThreads == 2

Threads == 1..NumThreads
None == 0

\* ---------------------------------------------------------------- variants
Simple == "SimpleTestPlugin"
Cluster == "TestClusterPlugin"
Sample == "sample-plugin"
Variants == {Simple, Cluster, Sample}
Flagged == {Simple, Cluster}

\* ------------------------------------------------------------------ errors
Nil == "nil"
ErrAlreadyInitialized == "plugin already initialized"
ErrNotInitialized == "plugin not initialized"

StatusOK == 200
StatusBadRequest == 400
StatusNotFound == 404

\* ------------------------------------------------------------- JSON values
\* A decoded JSON value (Go interface{}): its dynamic type and its text.
JAbsent == [t |-> "absent", s |-> ""]
JNull == [t |-> "nil", s |-> "null"]
JStr(s) == [t |-> "string", s |-> s]
JNum(s) == [t |-> "float64", s |-> s]

Member(k, v) == [k |-> k, v |-> v]

\* Request bodies as the handlers receive them: the top-level syntax of the
\* text and, for an object, its members in textual order.
Body(kind, members) == [kind |-> kind, members |-> members]

Bodies ==
  { Body("syntax", <<>>),
    Body("null", <<>>),
    Body("object", <<Member("name", JStr("gya"))>>),
    Body("object", <<Member("clusterName", JStr(""))>>),
    Body("object", <<Member("clusterName", JStr("")), Member("clusterName", JStr("test-cluster-1"))>>),
    Body("object", <<Member("clusterName", JStr("test-cluster-1"))>>),
    Body("object", <<Member("clusterName", JNull)>>),
    Body("object", <<Member("clusterName", JNum("123"))>>) }

\* The last member with key k (encoding/json keeps the last duplicate).
RECURSIVE LastValue(_, _)
LastValue(members, k) ==
  IF members = <<>> THEN JAbsent
  ELSE LET n == Len(members) IN
       IF members[n].k = k THEN members[n].v
       ELSE LastValue(SubSeq(members, 1, n - 1), k)

Keys(members) == {members[i].k : i \in 1..Len(members)}

\* c.ShouldBindJSON(&request) with request a map[string]interface{}:
\* an object decodes to a map, null leaves the map nil without an error,
\* anything else is an error.
ShouldBindJSON(body) ==
  CASE body.kind = "object" ->
         [err |-> Nil, request |-> [k \in Keys(body.members) |-> LastValue(body.members, k)]]
    [] body.kind = "null" ->
         [err |-> Nil, request |-> [k \in {} |-> JAbsent]]
    [] OTHER ->
         [err |-> "invalid character", request |-> [k \in {} |-> JAbsent]]

\* fmt's %s verb applied to an interface{} value.
FormatS(v) ==
  CASE v.t = "string" -> v.s
    [] v.t = "nil" -> "%!s(<nil>)"
    [] OTHER -> "%!s(" \o v.t \o "=" \o v.s \o ")"

Now == "time.Now().Format(time.RFC3339)"

\* -------------------------------------------------------------- responses
\* What c.JSON wrote: the status code and the keys of the JSON object.
NoResp ==
  [code |-> 0, status |-> "", clusterName |-> JAbsent, error |-> "", details |-> "",
   message |-> <<>>, timestamp |-> "", plugin |-> "", initialized |-> "",
   endpoints |-> <<>>, clusters |-> <<>>, summary |-> {}, version |-> ""]

\* ---------------------------------------------------------------- metadata
Endpoint(path, method, handler) == [Path |-> path, Method |-> method, Handler |-> handler]

NoMeta ==
  [ID |-> "", Name |-> "", Version |-> "", Description |-> "", Author |-> "",
   Endpoints |-> <<>>, Dependencies |-> <<>>, Permissions |-> <<>>, Compatibility |-> {}]

\* GetMetadata with a version that depends on the lifecycle state.
GetMetadata_FlagDependent(p) ==
  IF p.variant = Simple
  THEN [ID |-> "simple-test-plugin",
        Name |-> "Simple Test Plugin",
        Version |-> IF p.initialized THEN "1.0.0" ELSE "0.0.0",
        Description |-> "A simple test plugin for GitHub installation testing",
        Author |-> "Your Name",
        Endpoints |-> << Endpoint("/health", "GET", "HealthHandler"),
                         Endpoint("/info", "GET", "InfoHandler") >>,
        Dependencies |-> <<>>,
        Permissions |-> <<>>,
        Compatibility |-> {}]
  ELSE [ID |-> "kubestellar-cluster-plugin",
        Name |-> "KubeStellar Cluster Management",
        Version |-> IF p.initialized THEN "1.0.0" ELSE "0.0.0",
        Description |-> "Plugin for cluster onboarding and detachment operations with real functionality",
        Author |-> "CNCF LFX Mentee",
        Endpoints |-> << Endpoint("/onboard", "POST", "OnboardClusterHandler"),
                         Endpoint("/detach", "POST", "DetachClusterHandler"),
                         Endpoint("/status", "GET", "GetClusterStatusHandler") >>,
        Dependencies |-> <<"kubectl", "clusteradm">>,
        Permissions |-> <<"cluster.read", "cluster.write">>,
        Compatibility |-> { <<"go", ">=1.21">>, <<"kubestellar", ">=0.21.0">> }]

\* p is the receiver: the plugin instance as the method sees it.
GetMetadata(p) ==
  IF p.variant = Simple
  THEN [ID |-> "simple-test-plugin",
        Name |-> "Simple Test Plugin",
        Version |-> "1.0.0",
        Description |-> "A simple test plugin for GitHub installation testing",
        Author |-> "Your Name",
        Endpoints |-> << Endpoint("/health", "GET", "HealthHandler"),
                         Endpoint("/info", "GET", "InfoHandler") >>,
        Dependencies |-> <<>>,
        Permissions |-> <<>>,
        Compatibility |-> {}]
  ELSE [ID |-> "kubestellar-cluster-plugin",
        Name |-> "KubeStellar Cluster Management",
        Version |-> "1.0.0",
        Description |-> "Plugin for cluster onboarding and detachment operations with real functionality",
        Author |-> "CNCF LFX Mentee",
        Endpoints |-> << Endpoint("/onboard", "POST", "OnboardClusterHandler"),
                         Endpoint("/detach", "POST", "DetachClusterHandler"),
                         Endpoint("/status", "GET", "GetClusterStatusHandler") >>,
        Dependencies |-> <<"kubectl", "clusteradm">>,
        Permissions |-> <<"cluster.read", "cluster.write">>,
        Compatibility |-> { <<"go", ">=1.21">>, <<"kubestellar", ">=0.21.0">> }]

\* GetHandlers: the keys of the returned map.
GetHandlers(p) ==
  IF p.variant = Simple
  THEN {"HealthHandler", "InfoHandler"}
  ELSE {"GetClusterStatusHandler", "OnboardClusterHandler", "DetachClusterHandler"}

\* ------------------------------------------------- lifecycle method bodies
\* The test of Initialize (if p.initialized) on the flag value it reads.
InitializeErr(flag) == IF flag THEN ErrAlreadyInitialized ELSE Nil

\* Initialize run to completion by a single caller on a flag value.
InitializeAlone(flag) ==
  IF InitializeErr(flag) # Nil
  THEN [initialized |-> flag, err |-> InitializeErr(flag)]
  ELSE [initialized |-> TRUE, err |-> Nil]

\* Health with its test inverted.
HealthErr_Inverted(flag) == IF flag THEN ErrNotInitialized ELSE Nil

\* The test of Health (if !p.initialized) on the flag value it reads.
HealthErr(flag) == IF ~flag THEN ErrNotInitialized ELSE Nil

\* Cleanup flipping the flag instead of clearing it.
CleanupFlag_Toggle(flag) == ~flag

\* The assignment of Cleanup (p.initialized = false).
CleanupFlag(flag) == FALSE

\* ------------------------------------------------------- handler responses
SimpleHealthResponse ==
  [NoResp EXCEPT !.code = StatusOK,
                 !.status = "healthy",
                 !.plugin = "simple-test-plugin",
                 !.timestamp = Now,
                 !.message = <<"Plugin is running correctly">>]

InfoResponse(flag) ==
  [NoResp EXCEPT !.code = StatusOK,
                 !.initialized = IF flag THEN "true" ELSE "false",
                 !.timestamp = Now,
                 !.endpoints = <<"/health", "/info">>]

ClusterEntry(name, status, message, updated) ==
  [clusterName |-> name, status |-> status, message |-> message, lastUpdated |-> updated]

ClusterStatusResponse ==
  [NoResp EXCEPT !.code = StatusOK,
                 !.clusters = << ClusterEntry("test-cluster-1", "failed", "niii bdlunga", Now),
                                 ClusterEntry("gya", "failed",
                                              "Cluster onboarding completed successfully",
                                              "time.Now().Add(-5 * time.Minute)"),
                                 ClusterEntry("prod-cluster-1", "failed",
                                              "Connection timeout during onboarding",
                                              "time.Now().Add(-10 * time.Minute)") >>,
                 !.summary = { <<"total", 3>>, <<"ready", 3>>, <<"pending", 0>>,
                               <<"failed", 0>>, <<"detaching", 0>> },
                 !.timestamp = Now,
                 !.plugin = "GitHub Test Plugin v2"]

InvalidFormatResponse(err) ==
  [NoResp EXCEPT !.code = StatusBadRequest,
                 !.error = "Invalid request format",
                 !.details = err]

MissingNameResponse ==
  [NoResp EXCEPT !.code = StatusBadRequest,
                 !.error = "clusterName is required"]

\* clusterName, exists := request["clusterName"]; !exists || clusterName == ""
\* The comparison of an interface{} with "" is true only for an empty string.
NameMissing(request) ==
  \/ "clusterName" \notin DOMAIN request
  \/ request["clusterName"] = JStr("")

OnboardClusterResponse(body) ==
  LET bound == ShouldBindJSON(body) IN
  IF bound.err # Nil THEN InvalidFormatResponse(bound.err)
  ELSE IF NameMissing(bound.request) THEN MissingNameResponse
  ELSE LET clusterName == bound.request["clusterName"] IN
       [NoResp EXCEPT !.code = StatusOK,
                      !.message = <<"Cluster '", FormatS(clusterName),
                                    "' onboarding started successfully">>,
                      !.clusterName = clusterName,
                      !.status = "pending",
                      !.timestamp = Now,
                      !.plugin = "GitHub Test Plugin"]

\* The detach handler with the onboard handler's status left in.
DetachClusterResponse_CopyPaste(body) ==
  LET bound == ShouldBindJSON(body) IN
  IF bound.err # Nil THEN InvalidFormatResponse(bound.err)
  ELSE IF NameMissing(bound.request) THEN MissingNameResponse
  ELSE LET clusterName == bound.request["clusterName"] IN
       [NoResp EXCEPT !.code = StatusOK,
                      !.message = <<"Cluster '", FormatS(clusterName),
                                    "' detachment started successfully">>,
                      !.clusterName = clusterName,
                      !.status = "pending",
                      !.timestamp = Now,
                      !.plugin = "GitHub Test Plugin"]

DetachClusterResponse(body) ==
  LET bound == ShouldBindJSON(body) IN
  IF bound.err # Nil THEN InvalidFormatResponse(bound.err)
  ELSE IF NameMissing(bound.request) THEN MissingNameResponse
  ELSE LET clusterName == bound.request["clusterName"] IN
       [NoResp EXCEPT !.code = StatusOK,
                      !.message = <<"Cluster '", FormatS(clusterName),
                                    "' detachment started successfully">>,
                      !.clusterName = clusterName,
                      !.status = "detaching",
                      !.timestamp = Now,
                      !.plugin = "GitHub Test Plugin"]

\* sample-plugin (src/Makefile)
PluginName == "sample-plugin"
PluginVersion == "1.0.0"

healthCheck ==
  [NoResp EXCEPT !.code = StatusOK,
                 !.status = "healthy",
                 !.plugin = PluginName,
                 !.version = PluginVersion]

SampleEndpoints == {"/health", "/metrics"}

HandleRequestResponse(endpoint) ==
  IF endpoint = "/health" THEN healthCheck
  ELSE [NoResp EXCEPT !.code = StatusNotFound]

GetEndpoints == {"/health"}

\* =================================================================== state
VARIABLES
  variant,      \* which plugin the host has loaded
  loaded,       \* the factory has produced the instance
  initialized,  \* the instance's initialized flag
  writer,       \* p.mutex: the thread holding Lock, or None
  readers,      \* p.mutex: the threads holding RLock
  pc,           \* each host thread's position
  ret,          \* each host thread's pending return value
  last,         \* the most recently returned call and what it returned
  hist,         \* the last two completed Initialize/Cleanup calls on the instance
  okThreads,    \* threads whose Initialize succeeded since the flag was last false
  errSeen,      \* an Initialize returned the error since the flag was last false
  firstMeta     \* what the first GetMetadata call returned, and the flag values at the calls

vars ==
  <<variant, loaded, initialized, writer, readers, pc, ret, last, hist,
    okThreads, errSeen, firstMeta>>

mutexVars == <<writer, readers>>
ghostVars == <<okThreads, errSeen>>

self == [variant |-> variant, initialized |-> initialized]

Returned(op, err, resp, meta, names) ==
  [op |-> op, err |-> err, resp |-> resp, meta |-> meta, names |-> names]

Call(op, err) == [op |-> op, err |-> err]

NoCall == Call("none", Nil)

Push(h, e) == [prev |-> h.last, last |-> e]

NoFirstMeta == [set |-> FALSE, meta |-> NoMeta, flags |-> {}]

Init ==
  /\ variant \in Variants
  /\ loaded = (variant = Sample)
  /\ initialized = FALSE
  /\ writer = None
  /\ readers = {}
  /\ pc = [t \in Threads |-> "idle"]
  /\ ret = [t \in Threads |-> Nil]
  /\ last = Returned("none", Nil, NoResp, NoMeta, {})
  /\ hist = [prev |-> NoCall, last |-> NoCall]
  /\ okThreads = {}
  /\ errSeen = FALSE
  /\ firstMeta = NoFirstMeta

Idle(t) == loaded /\ pc[t] = "idle"

\* ---------------------------------------------------------------- factory
\* The host thread t looks the factory up and calls it.
SimpleTestPlugin_NewPlugin(t) ==
  /\ variant = Simple
  /\ ~loaded
  /\ loaded' = TRUE
  /\ initialized' = FALSE
  /\ last' = Returned("NewPlugin", Nil, NoResp, NoMeta, {})
  /\ UNCHANGED <<variant, mutexVars, pc, ret, hist, ghostVars, firstMeta>>

\* The factory calls Initialize on the new instance before returning it.
TestClusterPlugin_NewPlugin(t) ==
  /\ variant = Cluster
  /\ ~loaded
  /\ LET r == InitializeAlone(FALSE) IN
       /\ loaded' = (r.err = Nil)
       /\ initialized' = r.initialized
       /\ hist' = Push(hist, Call("Initialize", r.err))
       /\ okThreads' = IF r.err = Nil THEN okThreads \cup {t} ELSE okThreads
       /\ errSeen' = (errSeen \/ r.err # Nil)
       /\ last' = Returned("NewPlugin", r.err, NoResp, NoMeta, {})
  /\ UNCHANGED <<variant, mutexVars, pc, ret, firstMeta>>

\* ------------------------------------------------------------- Initialize
\* Initialize without p.mutex.Lock().
Initialize_LockSkipped(t) ==
  /\ variant \in Flagged
  /\ Idle(t)
  /\ pc' = [pc EXCEPT ![t] = "init_check"]
  /\ UNCHANGED <<variant, loaded, initialized, mutexVars, ret, last, hist, ghostVars, firstMeta>>

\* p.mutex.Lock() blocks while the mutex is held: the call proceeds from the
\* moment the lock is granted.
Initialize_Lock(t) ==
  /\ variant \in Flagged
  /\ Idle(t)
  /\ writer = None
  /\ readers = {}
  /\ writer' = t
  /\ pc' = [pc EXCEPT ![t] = "init_check"]
  /\ UNCHANGED <<variant, loaded, initialized, readers, ret, last, hist, ghostVars, firstMeta>>

Initialize_Check(t) ==
  /\ pc[t] = "init_check"
  /\ ret' = [ret EXCEPT ![t] = InitializeErr(initialized)]
  /\ pc' = [pc EXCEPT ![t] = IF InitializeErr(initialized) # Nil THEN "init_unlock" ELSE "init_set"]
  /\ UNCHANGED <<variant, loaded, initialized, mutexVars, last, hist, ghostVars, firstMeta>>

Initialize_Set(t) ==
  /\ pc[t] = "init_set"
  /\ initialized' = TRUE
  /\ pc' = [pc EXCEPT ![t] = "init_unlock"]
  /\ UNCHANGED <<variant, loaded, mutexVars, ret, last, hist, ghostVars, firstMeta>>

Initialize_Unlock(t) ==
  /\ pc[t] = "init_unlock"
  /\ writer' = None
  /\ last' = Returned("Initialize", ret[t], NoResp, NoMeta, {})
  /\ hist' = Push(hist, Call("Initialize", ret[t]))
  /\ okThreads' = IF ret[t] = Nil THEN okThreads \cup {t} ELSE okThreads
  /\ errSeen' = (errSeen \/ ret[t] # Nil)
  /\ ret' = [ret EXCEPT ![t] = Nil]
  /\ pc' = [pc EXCEPT ![t] = "idle"]
  /\ UNCHANGED <<variant, loaded, initialized, readers, firstMeta>>

\* ---------------------------------------------------------------- Cleanup
Cleanup_Lock(t) ==
  /\ variant \in Flagged
  /\ Idle(t)
  /\ writer = None
  /\ readers = {}
  /\ writer' = t
  /\ pc' = [pc EXCEPT ![t] = "clean_set"]
  /\ UNCHANGED <<variant, loaded, initialized, readers, ret, last, hist, ghostVars, firstMeta>>

Cleanup_Set(t) ==
  /\ pc[t] = "clean_set"
  /\ initialized' = CleanupFlag(initialized)
  /\ okThreads' = {}
  /\ errSeen' = FALSE
  /\ pc' = [pc EXCEPT ![t] = "clean_unlock"]
  /\ UNCHANGED <<variant, loaded, mutexVars, ret, last, hist, firstMeta>>

Cleanup_Unlock(t) ==
  /\ pc[t] = "clean_unlock"
  /\ writer' = None
  /\ last' = Returned("Cleanup", Nil, NoResp, NoMeta, {})
  /\ hist' = Push(hist, Call("Cleanup", Nil))
  /\ pc' = [pc EXCEPT ![t] = "idle"]
  /\ UNCHANGED <<variant, loaded, initialized, readers, ret, ghostVars, firstMeta>>

\* ----------------------------------------------------------------- Health
\* SimpleTestPlugin.Health reads the flag without taking the mutex.
SimpleTestPlugin_Health(t) ==
  /\ variant = Simple
  /\ Idle(t)
  /\ last' = Returned("Health", HealthErr(initialized), NoResp, NoMeta, {})
  /\ UNCHANGED <<variant, loaded, initialized, mutexVars, pc, ret, hist, ghostVars, firstMeta>>

\* p.mutex.RLock() blocks while a writer holds the mutex.
TestClusterPlugin_Health_RLock(t) ==
  /\ variant = Cluster
  /\ Idle(t)
  /\ writer = None
  /\ readers' = readers \cup {t}
  /\ pc' = [pc EXCEPT ![t] = "health_read"]
  /\ UNCHANGED <<variant, loaded, initialized, writer, ret, last, hist, ghostVars, firstMeta>>

TestClusterPlugin_Health_Read(t) ==
  /\ pc[t] = "health_read"
  /\ ret' = [ret EXCEPT ![t] = HealthErr(initialized)]
  /\ pc' = [pc EXCEPT ![t] = "health_runlock"]
  /\ UNCHANGED <<variant, loaded, initialized, mutexVars, last, hist, ghostVars, firstMeta>>

TestClusterPlugin_Health_RUnlock(t) ==
  /\ pc[t] = "health_runlock"
  /\ readers' = readers \ {t}
  /\ last' = Returned("Health", ret[t], NoResp, NoMeta, {})
  /\ ret' = [ret EXCEPT ![t] = Nil]
  /\ pc' = [pc EXCEPT ![t] = "idle"]
  /\ UNCHANGED <<variant, loaded, initialized, writer, hist, ghostVars, firstMeta>>

\* --------------------------------------------------- GetMetadata, GetHandlers
GetMetadata_Call(t) ==
  /\ variant \in Flagged
  /\ Idle(t)
  /\ last' = Returned("GetMetadata", Nil, NoResp, GetMetadata(self), {})
  /\ firstMeta' = [set |-> TRUE,
                   meta |-> IF firstMeta.set THEN firstMeta.meta ELSE GetMetadata(self),
                   flags |-> firstMeta.flags \cup {initialized}]
  /\ UNCHANGED <<variant, loaded, initialized, mutexVars, pc, ret, hist, ghostVars>>

GetHandlers_Call(t) ==
  /\ variant \in Flagged
  /\ Idle(t)
  /\ last' = Returned("GetHandlers", Nil, NoResp, NoMeta, GetHandlers(self))
  /\ UNCHANGED <<variant, loaded, initialized, mutexVars, pc, ret, hist, ghostVars, firstMeta>>

\* ------------------------------------------------ SimpleTestPlugin handlers
HealthHandler(t) ==
  /\ variant = Simple
  /\ Idle(t)
  /\ last' = Returned("HealthHandler", Nil, SimpleHealthResponse, NoMeta, {})
  /\ UNCHANGED <<variant, loaded, initialized, mutexVars, pc, ret, hist, ghostVars, firstMeta>>

\* InfoHandler reads the flag without taking the mutex.
InfoHandler(t) ==
  /\ variant = Simple
  /\ Idle(t)
  /\ last' = Returned("InfoHandler", Nil, InfoResponse(initialized), GetMetadata(self), {})
  /\ UNCHANGED <<variant, loaded, initialized, mutexVars, pc, ret, hist, ghostVars, firstMeta>>

\* ----------------------------------------------- TestClusterPlugin handlers
GetClusterStatusHandler(t) ==
  /\ variant = Cluster
  /\ Idle(t)
  /\ last' = Returned("GetClusterStatusHandler", Nil, ClusterStatusResponse, NoMeta, {})
  /\ UNCHANGED <<variant, loaded, initialized, mutexVars, pc, ret, hist, ghostVars, firstMeta>>

OnboardClusterHandler(t, body) ==
  /\ variant = Cluster
  /\ Idle(t)
  /\ last' = Returned("OnboardClusterHandler", Nil, OnboardClusterResponse(body), NoMeta, {})
  /\ UNCHANGED <<variant, loaded, initialized, mutexVars, pc, ret, hist, ghostVars, firstMeta>>

DetachClusterHandler(t, body) ==
  /\ variant = Cluster
  /\ Idle(t)
  /\ last' = Returned("DetachClusterHandler", Nil, DetachClusterResponse(body), NoMeta, {})
  /\ UNCHANGED <<variant, loaded, initialized, mutexVars, pc, ret, hist, ghostVars, firstMeta>>

\* ------------------------------------------------------------ sample-plugin
\* The package-level Initialize keeps no flag and always returns nil.
Sample_Initialize(t) ==
  /\ variant = Sample
  /\ Idle(t)
  /\ last' = Returned("Initialize", Nil, NoResp, NoMeta, {})
  /\ hist' = Push(hist, Call("Initialize", Nil))
  /\ okThreads' = okThreads \cup {t}
  /\ UNCHANGED <<variant, loaded, initialized, mutexVars, pc, ret, errSeen, firstMeta>>

Sample_GetEndpoints(t) ==
  /\ variant = Sample
  /\ Idle(t)
  /\ last' = Returned("GetEndpoints", Nil, NoResp, NoMeta, GetEndpoints)
  /\ UNCHANGED <<variant, loaded, initialized, mutexVars, pc, ret, hist, ghostVars, firstMeta>>

Sample_HandleRequest(t, endpoint) ==
  /\ variant = Sample
  /\ Idle(t)
  /\ last' = Returned("HandleRequest", Nil, HandleRequestResponse(endpoint), NoMeta, {})
  /\ UNCHANGED <<variant, loaded, initialized, mutexVars, pc, ret, hist, ghostVars, firstMeta>>

\* ==================================================================== Next
Next ==
  \/ \E t \in Threads : SimpleTestPlugin_NewPlugin(t)
  \/ \E t \in Threads : TestClusterPlugin_NewPlugin(t)
  \/ \E t \in Threads : Initialize_Lock(t)
  \/ \E t \in Threads : Initialize_Check(t)
  \/ \E t \in Threads : Initialize_Set(t)
  \/ \E t \in Threads : Initialize_Unlock(t)
  \/ \E t \in Threads : Cleanup_Lock(t)
  \/ \E t \in Threads : Cleanup_Set(t)
  \/ \E t \in Threads : Cleanup_Unlock(t)
  \/ \E t \in Threads : SimpleTestPlugin_Health(t)
  \/ \E t \in Threads : TestClusterPlugin_Health_RLock(t)
  \/ \E t \in Threads : TestClusterPlugin_Health_Read(t)
  \/ \E t \in Threads : TestClusterPlugin_Health_RUnlock(t)
  \/ \E t \in Threads : GetMetadata_Call(t)
  \/ \E t \in Threads : GetHandlers_Call(t)
  \/ \E t \in Threads : HealthHandler(t)
  \/ \E t \in Threads : InfoHandler(t)
  \/ \E t \in Threads : GetClusterStatusHandler(t)
  \/ \E t \in Threads, body \in Bodies : OnboardClusterHandler(t, body)
  \/ \E t \in Threads, body \in Bodies : DetachClusterHandler(t, body)
  \/ \E t \in Threads : Sample_Initialize(t)
  \/ \E t \in Threads : Sample_GetEndpoints(t)
  \/ \E t \in Threads, endpoint \in SampleEndpoints : Sample_HandleRequest(t, endpoint)

Spec == Init /\ [][Next]_vars

\* ------------------------------------------------------------ type invariant
TypeOK ==
  /\ variant \in Variants
  /\ loaded \in BOOLEAN
  /\ initialized \in BOOLEAN
  /\ writer \in Threads \cup {None}
  /\ readers \subseteq Threads
  /\ ret \in [Threads -> {Nil, ErrAlreadyInitialized, ErrNotInitialized}]
  /\ hist.last = NoCall => hist.prev = NoCall
  /\ okThreads \subseteq Threads
  /\ errSeen \in BOOLEAN

\* ================================================================== claims
LastLifecycle == hist.last.op

OthersIdle(t) == \A u \in Threads \ {t} : pc[u] = "idle"

\* The clusterName member of a body that is a JSON object.
ClusterNameOf(body) == LastValue(body.members, "clusterName")

HasNonEmptyName(body) ==
  /\ body.kind = "object"
  /\ ClusterNameOf(body).t = "string"
  /\ ClusterNameOf(body).s # ""

\* C1: in every variant, an Initialize call that returns when the previous
\* completed lifecycle call was an Initialize (no Cleanup in between) returns
\* the 'already initialized' error; an Initialize that finds the flag true
\* returns that error, one that finds it false succeeds, and the flag is true
\* when either returns.
C1_SecondInitializeFails ==
  [][\A t \in Threads :
       /\ (Initialize_Unlock(t) \/ Sample_Initialize(t)) /\ LastLifecycle = "Initialize"
            => last'.err = ErrAlreadyInitialized
       /\ Initialize_Check(t) => (ret'[t] = ErrAlreadyInitialized <=> initialized)
       /\ Initialize_Unlock(t) => initialized']_vars

\* C2: a Health call returns nil exactly when the flag is true when it reads
\* it, and 'not initialized' otherwise; when no other call is in progress that
\* is exactly when the last completed lifecycle call was an Initialize.
C2_HealthTracksInitialized ==
  [][\A t \in Threads :
       (SimpleTestPlugin_Health(t) \/ TestClusterPlugin_Health_RUnlock(t)) =>
          /\ last'.op = "Health"
          /\ last'.err = Nil <=> initialized
          /\ last'.err # Nil => last'.err = ErrNotInitialized
          /\ OthersIdle(t) => (last'.err = Nil <=> LastLifecycle = "Initialize")]_vars

\* A Health call failed after an Initialize followed by a Cleanup.
C2_Witness ==
  /\ last.op = "Health"
  /\ last.err = ErrNotInitialized
  /\ hist.last = Call("Cleanup", Nil)
  /\ hist.prev = Call("Initialize", Nil)
  /\ \A t \in Threads : pc[t] = "idle"

\* C3: Cleanup's assignment leaves the flag false whatever it was, Cleanup
\* returns nil with the flag false, and a Cleanup that follows a Cleanup
\* leaves the flag as the first left it.
C3_CleanupIdempotent ==
  [][\A t \in Threads :
       /\ Cleanup_Set(t) => /\ ~initialized'
                            /\ LastLifecycle = "Cleanup" => initialized' = initialized
       /\ Cleanup_Unlock(t) => /\ last'.op = "Cleanup"
                               /\ last'.err = Nil
                               /\ ~initialized']_vars

\* Two Cleanup calls in a row have returned.
C3_Witness ==
  /\ hist.last = Call("Cleanup", Nil)
  /\ hist.prev = Call("Cleanup", Nil)
  /\ last.op = "Cleanup"
  /\ ~initialized

\* C4: no read of the flag (Health, InfoHandler) happens while a thread holds
\* the mutex for writing.
C4_ReadsExcludeWriters ==
  [][\A t \in Threads :
       (SimpleTestPlugin_Health(t) \/ InfoHandler(t) \/ TestClusterPlugin_Health_Read(t))
          => writer = None]_vars

\* C5: HealthHandler does not answer 200 "healthy" while the flag is false.
C5_NotHealthyBeforeInitialize ==
  [][\A t \in Threads :
       HealthHandler(t) /\ ~initialized
          => ~(last'.resp.code = StatusOK /\ last'.resp.status = "healthy")]_vars

\* C6: for a body that is an object with a non-empty string clusterName N,
\* the onboard handler answers 200, clusterName N, status "pending", the
\* detach handler 200, clusterName N, status "detaching"; both carry a
\* timestamp and leave the flag alone.
C6_ValidNameAccepted ==
  [][\A t \in Threads, body \in Bodies :
       HasNonEmptyName(body) =>
         /\ OnboardClusterHandler(t, body) =>
              /\ last'.resp.code = StatusOK
              /\ last'.resp.clusterName = JStr(ClusterNameOf(body).s)
              /\ last'.resp.status = "pending"
              /\ last'.resp.timestamp # ""
              /\ initialized' = initialized
         /\ DetachClusterHandler(t, body) =>
              /\ last'.resp.code = StatusOK
              /\ last'.resp.clusterName = JStr(ClusterNameOf(body).s)
              /\ last'.resp.status = "detaching"
              /\ last'.resp.timestamp # ""
              /\ initialized' = initialized]_vars

\* The detach handler answered a request naming test-cluster-1.
C6_Witness ==
  /\ last.op = "DetachClusterHandler"
  /\ last.resp.code = StatusOK
  /\ last.resp.clusterName = JStr("test-cluster-1")
  /\ last.resp.status = "detaching"

\* C7: for a body that is not an object with a non-empty string clusterName,
\* the onboard and detach handlers answer 400 with an error field.
C7_BadBodyRejected ==
  [][\A t \in Threads, body \in Bodies :
       ~HasNonEmptyName(body)
       /\ (OnboardClusterHandler(t, body) \/ DetachClusterHandler(t, body))
          => last'.resp.code = StatusBadRequest /\ last'.resp.error # ""]_vars

\* C8: every GetMetadata call returns the record the first call returned,
\* without an error and without changing the flag.
C8_MetadataStable ==
  [][\A t \in Threads :
       GetMetadata_Call(t) =>
          /\ last'.op = "GetMetadata"
          /\ last'.meta = firstMeta'.meta
          /\ last'.meta # NoMeta
          /\ last'.err = Nil
          /\ initialized' = initialized]_vars

\* GetMetadata has been called with the flag false and with the flag true.
C8_Witness ==
  /\ last.op = "GetMetadata"
  /\ firstMeta.flags = {TRUE, FALSE}
  /\ hist.last # NoCall

\* C9: the instance the factory returns has the flag false, so that Health
\* on it fails with 'not initialized' and an Initialize on it succeeds.
C9_FactoryLeavesUninitialized ==
  [][\A t \in Threads :
       (SimpleTestPlugin_NewPlugin(t) \/ TestClusterPlugin_NewPlugin(t)) =>
        /\ ~initialized'
        /\ HealthErr(initialized') = ErrNotInitialized
        /\ InitializeErr(initialized') = Nil]_vars

\* C10: on an instance with a flag, among the Initialize calls that have
\* returned since the flag was last false, at most one thread's has
\* succeeded, and once any has returned (with success or with the error)
\* exactly one has succeeded and the flag is true.
C10_OneInitializeWins ==
  variant \in Flagged =>
     /\ Cardinality(okThreads) <= 1
     /\ (okThreads # {} \/ errSeen) => (Cardinality(okThreads) = 1 /\ initialized)

\* One thread's Initialize has succeeded and another thread's Initialize,
\* inside its critical section, is about to return the error.
C10_Witness ==
  /\ variant \in Flagged
  /\ Cardinality(okThreads) = 1
  /\ initialized
  /\ \E u \in Threads \ okThreads : pc[u] = "init_unlock" /\ ret[u] = ErrAlreadyInitialized
====
